---- MODULE Spec2Model ----
(***************************************************************************)
(* forestry: files of a project tree are assigned to named external       *)
(* formatters by glob patterns (Project::match_runners), every runner is   *)
(* then executed once (Project::run, Runner::run) and the outcomes are     *)
(* folded into the process exit code (main).                               *)
(*                                                                         *)
(* The file system, the configuration file's content, the directory walk   *)
(* and the exit status of every spawned program are the environment: they  *)
(* are drawn from the bounded sets below.                                  *)
(***************************************************************************)
EXTENDS Integers, Sequences, FiniteSets, TLC

\* ------------------------------------------------------------------ bounds

\* At most this many [formatters.<name>] tables in the configuration file.
MaxFormatters == 3

\* At most this many entries, besides directories, yielded by the walk.
MaxEntries == 2

\* ------------------------------------------------------- formatter names

\* The formatter names used, and the bytes of each (String's Ord compares
\* the UTF-8 bytes lexicographically).
Bytes(name) ==
    CASE name = "a"  -> <<97>>
      [] name = "ab" -> <<97, 98>>
      [] name = "b"  -> <<98>>
      [] name = "ba" -> <<98, 97>>
      [] name = "c"  -> <<99>>

RECURSIVE SeqLess(_, _)
\* Lexicographic order of two byte sequences (strict).
SeqLess(s, t) ==
    IF t = <<>> THEN FALSE
    ELSE IF s = <<>> THEN TRUE
    ELSE IF s[1] # t[1] THEN s[1] < t[1]
    ELSE SeqLess(Tail(s), Tail(t))

\* String::cmp(a, b) = Less, the key order of BTreeMap<String, _>.
NameLess(a, b) == SeqLess(Bytes(a), Bytes(b))

\* ------------------------------------------------------------------ globs

\* The relative paths of the regular files the walk can yield.
FilePool == {"a.py", "b.txt"}

Ext(path) ==
    CASE path = "a.py"  -> "py"
      [] path = "b.txt" -> "txt"

\* Glob::new(pattern) succeeds: "[" is an unclosed character class.
GlobValid(pattern) == pattern # "["

\* Whether one compiled glob matches a relative path.
GlobMatches(pattern, path) ==
    CASE pattern = "*"     -> TRUE
      [] pattern = "*.py"  -> Ext(path) = "py"
      [] pattern = "*.txt" -> Ext(path) = "txt"
      [] pattern = "*.md"  -> Ext(path) = "md"
      [] OTHER             -> FALSE

Range(s) == {s[i] : i \in 1..Len(s)}

\* Runner::build_glob_set: every pattern is compiled in turn, the first
\* invalid one is the error returned.
build_glob_set(patterns) ==
    IF \E i \in 1..Len(patterns) : ~GlobValid(patterns[i])
    THEN [ok |-> FALSE, globs |-> {}]
    ELSE [ok |-> TRUE, globs |-> Range(patterns)]

\* GlobSet::is_match_candidate
is_match(glob_set, path) == \E g \in glob_set : GlobMatches(g, path)

\* ---------------------------------------------------------- configuration

\* The [formatters.<name>] tables a configuration file may declare: one
\* table per name, with its program, shell flag, preset args and patterns.
FormatterPool ==
    { [name |-> "a",  program |-> "black",    shell |-> FALSE,
       args |-> <<"-q">>,          patterns |-> <<"*.py">>],
      [name |-> "ab", program |-> "fmt \"$@\"", shell |-> TRUE,
       args |-> <<"fmt">>,         patterns |-> <<"*.py", "*.txt">>],
      [name |-> "b",  program |-> "prettier", shell |-> FALSE,
       args |-> <<"--write", "--">>, patterns |-> <<"*">>],
      [name |-> "ba", program |-> "sed -i s/x/y/", shell |-> TRUE,
       args |-> <<>>,              patterns |-> <<"*.txt">>],
      [name |-> "c",  program |-> "mdfmt",    shell |-> FALSE,
       args |-> <<>>,              patterns |-> <<"*.md", "[">>] }

\* The contents a parsable configuration file may have: up to MaxFormatters
\* tables with distinct names, in the order the file declares them.
Declarations ==
    { d \in UNION { [1..n -> FormatterPool] : n \in 0..MaxFormatters } :
        \A i, j \in 1..Len(d) : i # j => d[i].name # d[j].name }

\* The directories: the process starts in "top/sub".
Cwd == "top/sub"

Parent(dir) == IF dir = "top/sub" THEN "top" ELSE "none"

\* The entries the directory walk can yield, each at most once, besides the
\* directories: the regular files and an entry that cannot be read.
EntryPool ==
    { [kind |-> "file", path |-> f] : f \in FilePool }
    \cup { [kind |-> "err", path |-> "e"] }

\* The ways a spawned command can end: it could not be started, it exited
\* with a non-zero status, it exited with status zero.
Statuses == {"exec_failed", "exit_nonzero", "exit_zero"}

\* ------------------------------------------------------------------ state

VARIABLES
    cli_root_dir,   \* Cli::root_dir: "none" or the directory given
    cwd_ok,         \* env::current_dir() succeeds
    config_dir,     \* the directory that holds the config file, or "nowhere"
    config_text,    \* "ok": the file reads and parses; "unparsable": it does not
    declared,       \* the formatter tables of the file, in declaration order
    pc,             \* "load", "match", "walk", "run", "done"
    load_error,     \* "none" or the LoadError that Project::load returned
    root_dir,       \* Project::root_dir
    runners,        \* Project::runners
    walked,         \* the entries the walk has yielded so far, directories left out
    partitions,     \* match_runners' partitions: per runner, its files
    warnings,       \* the warn! records emitted, in order
    next_runner,    \* position of Project::run's loop over the partitions
    all_runners_succeeded,
    invocations,    \* the commands executed, in order, with their status
    exit_code       \* the process exit code, -1 while running

vars == <<cli_root_dir, cwd_ok, config_dir, config_text, declared, pc,
          load_error, root_dir, runners, walked, partitions, warnings,
          next_runner, all_runners_succeeded, invocations, exit_code>>

env_vars == <<cli_root_dir, cwd_ok, config_dir, config_text, declared>>

Init ==
    /\ cli_root_dir \in {"none", Cwd}
    /\ cwd_ok \in BOOLEAN
    /\ (cli_root_dir # "none" => cwd_ok)
    /\ config_dir \in {"nowhere", "top/sub", "top"}
    /\ config_text \in {"ok", "unparsable"}
    /\ (config_dir = "nowhere" => config_text = "ok")
    /\ declared \in Declarations
    /\ (config_dir = "nowhere" \/ config_text = "unparsable" => declared = <<>>)
    /\ pc = "load"
    /\ load_error = "none"
    /\ root_dir = "none"
    /\ runners = <<>>
    /\ walked = <<>>
    /\ partitions = <<>>
    /\ warnings = <<>>
    /\ next_runner = 1
    /\ all_runners_succeeded = TRUE
    /\ invocations = <<>>
    /\ exit_code = -1

\* ------------------------------------------------------------------- load

\* Config::check_dir: the directory itself holds a config file.
check_dir(dir) == dir = config_dir

RECURSIVE find(_)
\* Config::find: the directory or the nearest parent that holds a config
\* file; "none" if there is none.
find(dir) ==
    IF dir = "none" THEN "none"
    ELSE IF check_dir(dir) THEN dir
    ELSE find(Parent(dir))

\* Project::find_config: the root directory, or the error.
find_config ==
    IF cli_root_dir # "none"
    THEN IF check_dir(cli_root_dir)
         THEN [ok |-> TRUE, dir |-> cli_root_dir, err |-> "none"]
         ELSE [ok |-> FALSE, dir |-> "none", err |-> "NoConfigFile"]
    ELSE IF ~cwd_ok
         THEN [ok |-> FALSE, dir |-> "none", err |-> "CwdNotAccessible"]
         ELSE IF find(Cwd) # "none"
              THEN [ok |-> TRUE, dir |-> find(Cwd), err |-> "none"]
              ELSE [ok |-> FALSE, dir |-> "none", err |-> "NoConfigFile"]

RECURSIVE insert(_, _)
\* BTreeMap::insert into the entries kept in key (name) order.
insert(sorted, fmt) ==
    IF sorted = <<>> THEN <<fmt>>
    ELSE IF NameLess(fmt.name, sorted[1].name) THEN <<fmt>> \o sorted
    ELSE <<sorted[1]>> \o insert(Tail(sorted), fmt)

\* Variant: the map keeps the tables in the order the file declares them.
formatters_map_declared(decl) == decl

RECURSIVE formatters_map(_)
\* Config::formatters, a BTreeMap<String, Formatter>, as the sequence its
\* into_iter() yields: the declared tables in the order of their names.
formatters_map(decl) ==
    IF decl = <<>> THEN <<>>
    ELSE insert(formatters_map(SubSeq(decl, 1, Len(decl) - 1)), decl[Len(decl)])

\* Runner::from_formatter: the runner, or the glob error.
from_formatter(fmt) ==
    LET gs == build_glob_set(fmt.patterns) IN
    [ok |-> gs.ok,
     runner |-> [name |-> fmt.name, glob_set |-> gs.globs,
                 program |-> fmt.program, shell |-> fmt.shell,
                 args |-> fmt.args]]

\* Variant: a formatter with an invalid pattern is left out instead of
\* failing the load.
build_runners_skip_invalid(fmts) ==
    LET Valid(fmt) == from_formatter(fmt).ok
        kept == SelectSeq(fmts, Valid)
    IN [ok |-> TRUE,
        runners |-> [i \in 1..Len(kept) |-> from_formatter(kept[i]).runner]]

\* The runners of Project::load, collected into a Result: the error of any
\* formatter is the error of them all.
build_runners(fmts) ==
    IF \E i \in 1..Len(fmts) : ~from_formatter(fmts[i]).ok
    THEN [ok |-> FALSE, runners |-> <<>>]
    ELSE [ok |-> TRUE,
          runners |-> [i \in 1..Len(fmts) |-> from_formatter(fmts[i]).runner]]

\* Project::load as called by try_main; on an error main logs it and the
\* process ends with ExitCode::FAILURE.
Load ==
    /\ pc = "load"
    /\ LET fc == find_config
           built == build_runners(formatters_map(declared))
           err == IF ~fc.ok THEN fc.err
                  ELSE IF config_text # "ok" THEN "ConfigFileLoad"
                  ELSE IF ~built.ok THEN "InvalidGlob"
                  ELSE "none"
       IN /\ load_error' = err
          /\ IF err = "none"
             THEN /\ root_dir' = fc.dir
                  /\ runners' = built.runners
                  /\ pc' = "match"
                  /\ exit_code' = exit_code
             ELSE /\ pc' = "done"
                  /\ exit_code' = 1
                  /\ UNCHANGED <<root_dir, runners>>
    /\ UNCHANGED <<env_vars, walked, partitions, warnings, next_runner,
                   all_runners_succeeded, invocations>>

\* --------------------------------------------------------- match_runners

\* The path of a walked entry, as DirEntry::into_path gives it: the root
\* directory joined with the path relative to it.
into_path(root, rel) ==
    CASE root = "top/sub" /\ rel = "a.py"  -> "top/sub/a.py"
      [] root = "top/sub" /\ rel = "b.txt" -> "top/sub/b.txt"
      [] root = "top"     /\ rel = "a.py"  -> "top/a.py"
      [] root = "top"     /\ rel = "b.txt" -> "top/b.txt"

\* warn!("skipping directory entry, cause: {}", error)
skip_warning == [msg |-> "skipping directory entry"]

\* Variant: the conflict warning also names the runners that lose the file.
conflict_warning_named(rel_path) ==
    LET m == {i \in 1..Len(runners) : is_match(runners[i].glob_set, rel_path)}
        first == CHOOSE i \in m : \A j \in m : i <= j
    IN [msg |-> "already matched by another runner", file |-> rel_path,
        runners |-> {runners[i].name : i \in m \ {first}}]

\* warn!("file {} is already matched by another runner, using only the first", rel_path)
conflict_warning(rel_path) == [msg |-> "already matched by another runner", file |-> rel_path]

\* warn!("file {} is not matched by any runner", rel_path)
unmatched_warning(rel_path) == [msg |-> "not matched by any runner", file |-> rel_path]

RECURSIVE match_loop_no_break(_, _, _, _, _)
\* Variant: the loop does not break at the second match, and warns at every
\* further one.
match_loop_no_break(rs, rel_path, i, matched, warns) ==
    IF i > Len(rs) THEN [matched |-> matched, warns |-> warns]
    ELSE IF is_match(rs[i].glob_set, rel_path)
         THEN IF matched = 0
              THEN match_loop_no_break(rs, rel_path, i + 1, i, warns)
              ELSE match_loop_no_break(rs, rel_path, i + 1, matched,
                                       Append(warns, conflict_warning(rel_path)))
         ELSE match_loop_no_break(rs, rel_path, i + 1, matched, warns)

RECURSIVE match_loop(_, _, _, _, _)
\* The loop over the partitions for one file, from position i on: `matched`
\* is the position of the partition held in matched_runner_files (0: None),
\* `warns` the warnings emitted so far. The second match warns and breaks.
match_loop(rs, rel_path, i, matched, warns) ==
    IF i > Len(rs) THEN [matched |-> matched, warns |-> warns]
    ELSE IF is_match(rs[i].glob_set, rel_path)
         THEN IF matched = 0
              THEN match_loop(rs, rel_path, i + 1, i, warns)
              ELSE [matched |-> matched,
                    warns |-> Append(warns, conflict_warning(rel_path))]
         ELSE match_loop(rs, rel_path, i + 1, matched, warns)

\* `if let Some(files) = matched_runner_files { files.push(..) }`: the
\* partitions after the file is pushed to the matched one, if any.
push_matched(parts, matched, path) ==
    IF matched = 0 THEN parts
    ELSE [parts EXCEPT ![matched] = Append(@, path)]

\* Variant: the "not matched" warning is emitted whether or not a runner
\* matched.
warn_unmatched_always(matched, rel_path) == <<unmatched_warning(rel_path)>>

\* `else { warn!(..not matched..) }`: the warnings of a file that no runner
\* matched.
warn_unmatched(matched, rel_path) ==
    IF matched = 0 THEN <<unmatched_warning(rel_path)>> ELSE <<>>

\* Project::run calls match_runners, which creates an empty group for each
\* runner and builds the walk.
MatchRunners ==
    /\ pc = "match"
    /\ partitions' = [i \in 1..Len(runners) |-> <<>>]
    /\ pc' = "walk"
    /\ UNCHANGED <<env_vars, load_error, root_dir, runners, walked, warnings,
                   next_runner, all_runners_succeeded, invocations, exit_code>>

\* The walk yields an entry that could not be read: warn and continue.
WalkError ==
    /\ pc = "walk"
    /\ Len(walked) < MaxEntries
    /\ \E e \in EntryPool \ Range(walked) :
        /\ e.kind = "err"
        /\ walked' = Append(walked, e)
        /\ warnings' = Append(warnings, skip_warning)
    /\ UNCHANGED <<env_vars, pc, load_error, root_dir, runners, partitions,
                   next_runner, all_runners_succeeded, invocations, exit_code>>

\* The walk yields a directory (the root directory is the first): it is
\* skipped, and nothing of the state changes.
WalkDir ==
    /\ pc = "walk"
    /\ UNCHANGED vars

\* Variant: the file is pushed to the partition of every runner that matches.
WalkFileEveryMatch ==
    /\ pc = "walk"
    /\ Len(walked) < MaxEntries
    /\ \E e \in EntryPool \ Range(walked) :
        /\ e.kind = "file"
        /\ walked' = Append(walked, e)
        /\ LET r == match_loop(runners, e.path, 1, 0, <<>>) IN
            /\ partitions' =
                  [i \in 1..Len(partitions) |->
                      IF is_match(runners[i].glob_set, e.path)
                      THEN Append(partitions[i], into_path(root_dir, e.path))
                      ELSE partitions[i]]
            /\ warnings' = warnings \o r.warns \o warn_unmatched(r.matched, e.path)
    /\ UNCHANGED <<env_vars, pc, load_error, root_dir, runners, next_runner,
                   all_runners_succeeded, invocations, exit_code>>

\* The walk yields a regular file: it is matched against every runner.
WalkFile ==
    /\ pc = "walk"
    /\ Len(walked) < MaxEntries
    /\ \E e \in EntryPool \ Range(walked) :
        /\ e.kind = "file"
        /\ walked' = Append(walked, e)
        /\ LET r == match_loop(runners, e.path, 1, 0, <<>>) IN
            /\ partitions' = push_matched(partitions, r.matched,
                                          into_path(root_dir, e.path))
            /\ warnings' = warnings \o r.warns \o warn_unmatched(r.matched, e.path)
    /\ UNCHANGED <<env_vars, pc, load_error, root_dir, runners, next_runner,
                   all_runners_succeeded, invocations, exit_code>>

\* The walk is exhausted: match_runners returns the partitions.
WalkEnd ==
    /\ pc = "walk"
    /\ pc' = "run"
    /\ UNCHANGED <<env_vars, load_error, root_dir, runners, walked, partitions,
                   warnings, next_runner, all_runners_succeeded, invocations,
                   exit_code>>

\* ------------------------------------------------------------------- run

\* Runner::new_shell_cmd (unix): sh -c <program>
new_shell_cmd(runner) == <<"sh", "-c", runner.program>>

\* Variant: the paths are added before the preset args.
command_paths_first(runner, paths) ==
    (IF runner.shell THEN new_shell_cmd(runner) ELSE <<runner.program>>)
        \o paths \o runner.args

\* The command Runner::run builds: the program (or the shell command), then
\* the preset args, then the paths.
command(runner, paths) ==
    (IF runner.shell THEN new_shell_cmd(runner) ELSE <<runner.program>>)
        \o runner.args \o paths

\* The Result of Runner::run for the status its command ended with.
run_result(status) ==
    CASE status = "exec_failed"  -> "ExecFailed"
      [] status = "exit_nonzero" -> "ProgramFailed"
      [] status = "exit_zero"    -> "Ok"

\* Variant: the result of the last runner replaces the results before it.
fold_result_last(succeeded, res) == res = "Ok"

\* all_runners_succeeded after a runner's result.
fold_result(succeeded, res) == IF res # "Ok" THEN FALSE ELSE succeeded

\* warn!("formatter {} failed to run: {}", runner.name(), err)
failed_warnings(runner, res) ==
    IF res # "Ok"
    THEN <<[msg |-> "failed to run", runner |-> runner.name, err |-> res]>>
    ELSE <<>>

\* Variant: the loop breaks at the first runner that fails.
loop_next_break(i, res) == IF res # "Ok" THEN Len(partitions) + 1 ELSE i + 1

\* The position of the loop over the partitions after the runner at i has
\* run: the loop goes on whatever the result.
loop_next(i, res) == i + 1

\* One turn of the loop of Project::run: the runner of the next partition is
\* executed on its files.
RunRunner ==
    /\ pc = "run"
    /\ next_runner <= Len(partitions)
    /\ \E status \in Statuses :
        LET runner == runners[next_runner]
            files == partitions[next_runner]
            res == run_result(status)
        IN /\ invocations' = Append(invocations,
                                    [runner |-> runner.name,
                                     argv |-> command(runner, files),
                                     cwd |-> root_dir,
                                     status |-> status])
           /\ all_runners_succeeded' = fold_result(all_runners_succeeded, res)
           /\ warnings' = warnings \o failed_warnings(runner, res)
           /\ next_runner' = loop_next(next_runner, res)
    /\ UNCHANGED <<env_vars, pc, load_error, root_dir, runners, walked,
                   partitions, exit_code>>

\* ExitCode::SUCCESS and ExitCode::FAILURE
exit_code_of(success) == IF success THEN 0 ELSE 1

\* Project::run returns all_runners_succeeded and main turns it into the
\* exit code.
Main ==
    /\ pc = "run"
    /\ next_runner > Len(partitions)
    /\ exit_code' = exit_code_of(all_runners_succeeded)
    /\ pc' = "done"
    /\ UNCHANGED <<env_vars, load_error, root_dir, runners, walked, partitions,
                   warnings, next_runner, all_runners_succeeded, invocations>>

Next ==
    \/ Load
    \/ MatchRunners
    \/ WalkError
    \/ WalkDir
    \/ WalkFile
    \/ WalkEnd
    \/ RunRunner
    \/ Main

Spec == Init /\ [][Next]_vars

\* ------------------------------------------------- what the claims speak of

\* The relative paths of the regular files walked so far, in walk order.
WalkedFiles ==
    LET IsFile(e) == e.kind = "file"
        fs == SelectSeq(walked, IsFile)
    IN [k \in 1..Len(fs) |-> fs[k].path]

\* The positions of the runners whose patterns match a relative path.
Matching(f) ==
    {i \in 1..Len(runners) : \E g \in runners[i].glob_set : GlobMatches(g, f)}

\* The positions, in the configuration file, of the declared formatters
\* whose patterns match a relative path.
DeclaredMatching(f) ==
    {j \in 1..Len(declared) :
        \E k \in 1..Len(declared[j].patterns) :
            GlobMatches(declared[j].patterns[k], f)}

Min(S) == CHOOSE x \in S : \A y \in S : x <= y

\* The positions of the partitions a file's path occurs at: <<partition, index>>.
Occurrences(f) ==
    UNION { { <<i, k>> : k \in {n \in 1..Len(partitions[i]) :
                                    partitions[i][n] = into_path(root_dir, f)} } :
            i \in 1..Len(partitions) }

\* The partitions that hold a file's path.
Holders(f) == {o[1] : o \in Occurrences(f)}

\* The position of the runner of a name.
RunnerAt(name) == CHOOSE i \in 1..Len(runners) : runners[i].name = name

\* The warnings of one kind about one file.
WarningsAbout(msg, f) ==
    {k \in 1..Len(warnings) :
        /\ warnings[k].msg = msg
        /\ "file" \in DOMAIN warnings[k]
        /\ warnings[k].file = f}

ConflictWarnings(f) == WarningsAbout("already matched by another runner", f)

UnmatchedWarnings(f) == WarningsAbout("not matched by any runner", f)

\* The formatters a warning names.
NamedFormatters(w) ==
    (IF "runner" \in DOMAIN w THEN {w.runner} ELSE {})
    \cup (IF "runners" \in DOMAIN w THEN w.runners ELSE {})

\* The invocations of the runner at position i.
InvocationsOf(i) ==
    {k \in 1..Len(invocations) : invocations[k].runner = runners[i].name}

\* The runner at position i was invoked and failed.
Failed(i) ==
    \E k \in InvocationsOf(i) : invocations[k].status # "exit_zero"

\* The run passed loading and has ended.
RunDone == pc = "done" /\ load_error = "none"

\* ----------------------------------------------------------------- claims

C2_EmptyPartitionNotInvoked ==
    /\ \A k \in 1..Len(invocations) :
          partitions[RunnerAt(invocations[k].runner)] # <<>>
    /\ (RunDone /\ \A i \in 1..Len(partitions) : partitions[i] = <<>>) =>
          (invocations = <<>> /\ all_runners_succeeded /\ exit_code = 0)

\* C3: once the run has ended, if a runner failed (not started, or non-zero
\* exit) then every later runner that holds files was executed exactly once,
\* after the failed one, and the result of the run is failure.
C3_FailureIsolation ==
    RunDone =>
        \A a \in 1..Len(runners) :
            Failed(a) =>
                /\ ~all_runners_succeeded
                /\ exit_code = 1
                /\ \A b \in (a + 1)..Len(runners) :
                      partitions[b] # <<>> =>
                          /\ Cardinality(InvocationsOf(b)) = 1
                          /\ \A ka \in InvocationsOf(a), kb \in InvocationsOf(b) : ka < kb

\* C3 witness: the run has ended, a runner failed and a later runner that
\* holds files exited with status zero.
C3_Witness ==
    /\ RunDone
    /\ \E a \in 1..Len(runners) :
        /\ Failed(a)
        /\ \E b \in (a + 1)..Len(runners) :
            /\ partitions[b] # <<>>
            /\ \E k \in InvocationsOf(b) : invocations[k].status = "exit_zero"

\* C4: once the run has ended, its result is true exactly if every executed
\* command was started and exited with status zero (so it is true if none was
\* executed), and the exit code is 0 exactly if the result is true.
C4_ResultIsConjunction ==
    RunDone =>
        /\ all_runners_succeeded <=>
              \A k \in 1..Len(invocations) : invocations[k].status = "exit_zero"
        /\ exit_code = (IF all_runners_succeeded THEN 0 ELSE 1)

\* C4 witness: the run has ended with exit code 1 after a command that could
\* not be started was followed by commands that all exited with status zero.
C4_Witness ==
    /\ RunDone
    /\ Len(invocations) >= 2
    /\ invocations[1].status = "exec_failed"
    /\ \A k \in 2..Len(invocations) : invocations[k].status = "exit_zero"
    /\ exit_code = 1

\* C5: at every point, the path of every file occurs at most once in all the
\* partitions together.
C5_PartitionExclusivity ==
    \A f \in FilePool : Cardinality(Occurrences(f)) <= 1

\* C5 witness: a file that three runners match has been classified and is
\* held by a partition.
C5_Witness ==
    \E k \in 1..Len(WalkedFiles) :
        /\ Cardinality(Matching(WalkedFiles[k])) >= 3
        /\ Holders(WalkedFiles[k]) # {}

\* C6: a walked file that no formatter matches is held by no partition, is
\* passed to no command, and has exactly one "not matched" warning; a file
\* that some formatter matches has none.
C6_NoMatchExclusion ==
    pc \in {"walk", "run", "done"} /\ load_error = "none" =>
        \A f \in FilePool :
            /\ (f \in Range(WalkedFiles) /\ Matching(f) = {}) =>
                  /\ Holders(f) = {}
                  /\ \A k \in 1..Len(invocations) :
                        \A n \in 1..Len(invocations[k].argv) :
                            invocations[k].argv[n] # into_path(root_dir, f)
                  /\ Cardinality(UnmatchedWarnings(f)) = 1
            /\ (f \notin Range(WalkedFiles) \/ Matching(f) # {}) =>
                  UnmatchedWarnings(f) = {}

\* C6 witness: the run has ended and executed a command, with one walked file
\* that no formatter matches and one that a formatter matches.
C6_Witness ==
    /\ RunDone
    /\ invocations # <<>>
    /\ \E f \in Range(WalkedFiles) : Matching(f) = {}
    /\ \E f \in Range(WalkedFiles) : Matching(f) # {}

\* C7: a walked file that two or more formatters match has exactly one
\* conflict warning, however many match it; a file that fewer than two
\* match has none.
C7_OneConflictWarning ==
    pc \in {"walk", "run", "done"} /\ load_error = "none" =>
        \A f \in FilePool :
            Cardinality(ConflictWarnings(f)) =
                (IF f \in Range(WalkedFiles) /\ Cardinality(Matching(f)) >= 2
                 THEN 1 ELSE 0)

\* C7 witness: a file that three formatters match and a file that exactly
\* two match have both been classified.
C7_Witness ==
    /\ \E f \in Range(WalkedFiles) : Cardinality(Matching(f)) = 3
    /\ \E f \in Range(WalkedFiles) : Cardinality(Matching(f)) = 2

\* C8 (as stated): every conflict warning names the formatters that match
\* its file other than the one the file was assigned to.
C8_WarningNamesDiscarded ==
    \A k \in 1..Len(warnings) :
        warnings[k].msg = "already matched by another runner" =>
            NamedFormatters(warnings[k]) =
                {runners[i].name :
                    i \in Matching(warnings[k].file) \ Holders(warnings[k].file)}

\* C8 (amended): every conflict warning names a walked file that two or more
\* formatters match, and names no formatter.
C8_WarningNamesFileOnly ==
    \A k \in 1..Len(warnings) :
        warnings[k].msg = "already matched by another runner" =>
            /\ warnings[k].file \in Range(WalkedFiles)
            /\ Cardinality(Matching(warnings[k].file)) >= 2
            /\ NamedFormatters(warnings[k]) = {}

\* C8 witness: a conflict warning has been emitted for a file held by the
\* first of the formatters that match it.
C8_Witness ==
    \E k \in 1..Len(warnings) :
        /\ warnings[k].msg = "already matched by another runner"
        /\ Holders(warnings[k].file) = {Min(Matching(warnings[k].file))}

\* The configuration file is not found where Project::load looks for it.
ConfigNotFound ==
    \/ cli_root_dir # "none" /\ config_dir # cli_root_dir
    \/ cli_root_dir = "none" /\ config_dir = "nowhere"

\* Some pattern of some declared formatter is invalid.
SomePatternInvalid ==
    \E j \in 1..Len(declared) :
        \E k \in 1..Len(declared[j].patterns) : ~GlobValid(declared[j].patterns[k])

\* C9: if the configuration file is not found, cannot be parsed, or holds an
\* invalid pattern, loading fails: nothing is walked, no command is executed
\* and the exit code is 1.
C9_FatalLoadError ==
    /\ (pc # "load" /\ (ConfigNotFound \/ config_text = "unparsable" \/ SomePatternInvalid)) =>
          load_error # "none"
    /\ load_error # "none" =>
          /\ pc = "done"
          /\ exit_code = 1
          /\ walked = <<>>
          /\ partitions = <<>>
          /\ invocations = <<>>

\* C9 witness: loading has failed on an invalid pattern of a configuration
\* that also declares a formatter whose patterns are all valid.
C9_Witness ==
    /\ pc = "done"
    /\ load_error = "InvalidGlob"
    /\ \E j \in 1..Len(declared) :
        \A k \in 1..Len(declared[j].patterns) : GlobValid(declared[j].patterns[k])

\* The paths of the walked files whose first matching runner is at i, in
\* walk order.
ClaimedInWalkOrder(i) ==
    LET Mine(f) == Matching(f) # {} /\ Min(Matching(f)) = i
        fs == SelectSeq(WalkedFiles, Mine)
    IN [k \in 1..Len(fs) |-> into_path(root_dir, fs[k])]

\* C10: the argument vector of every executed command is the program (with
\* shell: sh, -c, the program string), then the runner's preset args, then
\* the files the runner claimed, one argument each, in walk order.
C10_ArgumentVector ==
    \A k \in 1..Len(invocations) :
        LET r == runners[RunnerAt(invocations[k].runner)] IN
        invocations[k].argv =
            (IF r.shell THEN <<"sh", "-c", r.program>> ELSE <<r.program>>)
                \o r.args \o ClaimedInWalkOrder(RunnerAt(invocations[k].runner))

\* C10 witness: a runner with shell = true and preset args has been executed
\* on two claimed files.
C10_Witness ==
    \E k \in 1..Len(invocations) :
        LET i == RunnerAt(invocations[k].runner) IN
        /\ runners[i].shell
        /\ runners[i].args # <<>>
        /\ Len(partitions[i]) >= 2

====
